---- MODULE Spec2Model ----
(***************************************************************************)
(* Model of tokenizers.py: the regex segmenter convert_text_to_words and   *)
(* the NgramTokenizer (construction, train, tokenize, __len__).            *)
(*                                                                         *)
(* A text is a sequence of one-character strings, a unit (word or          *)
(* punctuation mark) is a non-empty sequence of characters, an n-gram is a *)
(* sequence of units (a Python tuple).  A dict is a function; the          *)
(* insertion-ordered dict token_counts is a sequence of <<ngram, count>>   *)
(* pairs in order of first insertion.                                      *)
(***************************************************************************)
EXTENDS Integers, Sequences, FiniteSets, TLC

VARIABLES n, vocab_size, token_to_id, id_to_token,
          op, corpus, text, return_token_ids, result, windows,
          trained, discarded

\* n, vocab_size, token_to_id, id_to_token: the fields of one NgramTokenizer.
\* op: the last call made ("init" right after construction).
\* corpus: the argument of the last train call.
\* text, return_token_ids, result: arguments and return value of the last
\*   tokenize (or convert_text_to_words) call.
\* windows: the value of the local `ngrams` in the last call, one entry per
\*   document scanned (train: one per corpus document; tokenize: one).
\* trained: train has been called at least once.
\* discarded: the last train call removed an n-gram that had an id before it.
vars == <<n, vocab_size, token_to_id, id_to_token,
          op, corpus, text, return_token_ids, result, windows,
          trained, discarded>>

----------------------------------------------------------------------------
(* Bounds of the explored inputs. *)

\* most characters in a corpus handed to a first train call (SpecTrain)
MaxCorpusChars == 5
\* most documents in a corpus handed to a first train call (SpecTrain)
MaxDocs == 2
\* longest text handed to tokenize, and longest document of the
\* one-document corpora used when train is interleaved with other calls
MaxTextLen == 2
\* longest text handed to convert_text_to_words under SpecSegment
MaxSegLen == 5
\* largest n-gram size an instance is constructed with
MaxN == 2
\* largest vocab_size an instance is constructed with
MaxVocab == 2

\* vocab_size value meaning "no limit"
Unbounded == -1
\* default n of NgramTokenizer.__init__
DefaultN == 2

WordChars == {"a", "1", "_"}
SpaceChars == {" ", "\n"}
PunctChars == {","}
SegAlphabet == WordChars \cup SpaceChars \cup PunctChars
Alphabet == {"a", ","}

\* __init__ validates nothing, so zero and negative values are constructible
NValues == -1..MaxN
VocabSizes == -2..MaxVocab

Min(a, b) == IF a <= b THEN a ELSE b
Max(a, b) == IF a >= b THEN a ELSE b

Texts(alpha, maxlen) == UNION {[1..k -> alpha] : k \in 0..maxlen}

\* the corpora of at most k documents holding at most c characters in all
RECURSIVE CorporaWithin(_, _)
CorporaWithin(k, c) ==
    IF k = 0 THEN {<<>>}
    ELSE {<<>>} \cup UNION {{<<d>> \o r : r \in CorporaWithin(k - 1, c - Len(d))} :
                                d \in Texts(Alphabet, c)}

\* texts handed to tokenize
TokTexts == Texts(Alphabet, MaxTextLen)
\* the empty corpus and every corpus of one short document
SmallCorpora == {<<>>} \cup {<<d>> : d \in TokTexts}
\* corpora of up to MaxDocs documents and MaxCorpusChars characters in all
TrainCorpora == CorporaWithin(MaxDocs, MaxCorpusChars)
\* texts handed to the segmenter alone
SegTexts == Texts(SegAlphabet, MaxSegLen)

----------------------------------------------------------------------------
(* identify_words_regex = re.compile(r"\w+|[^\w\s]", re.UNICODE) *)

\* \w
IsWordChar(c) == c \in WordChars
\* \s
IsSpaceChar(c) == c \in SpaceChars

\* \w in place of \w+: the match ends where it starts
WordRunEnd_single(t, pos) == pos

\* greedy \w+ anchored at pos: the last position of the run starting at pos
RECURSIVE WordRunEnd(_, _)
WordRunEnd(t, pos) ==
    IF pos < Len(t) /\ IsWordChar(t[pos + 1]) THEN WordRunEnd(t, pos + 1) ELSE pos

\* the regex tried at pos: last position of the match, or 0 when neither
\* alternative matches there
MatchAt(t, pos) ==
    IF IsWordChar(t[pos]) THEN WordRunEnd(t, pos)
    ELSE IF ~IsSpaceChar(t[pos]) THEN pos
    ELSE 0

\* findall: scan left to right, collect each match and resume after it
RECURSIVE findall(_, _)
findall(t, pos) ==
    IF pos > Len(t) THEN <<>>
    ELSE LET e == MatchAt(t, pos) IN
         IF e = 0 THEN findall(t, pos + 1)
         ELSE <<SubSeq(t, pos, e)>> \o findall(t, e + 1)

convert_text_to_words(t) == findall(t, 1)

----------------------------------------------------------------------------
(* Python list semantics used by the tokenizer *)

\* s[lo:hi] with Python's handling of negative and out-of-range indices
PySlice(s, lo, hi) ==
    LET L == Len(s)
        norm(x) == IF x < 0 THEN Max(0, x + L) ELSE Min(x, L)
    IN SubSeq(s, norm(lo) + 1, norm(hi))

\* [tuple(words[i:i + n]) for i in range(len(words) - n + 1)]
ngrams_of(ws, nn) ==
    [j \in 1..Max(0, Len(ws) - nn + 1) |-> PySlice(ws, j - 1, j - 1 + nn)]

EmptyMap == [x \in {} |-> 0]

----------------------------------------------------------------------------
(* NgramTokenizer.train *)

\* token_counts[ngram] += 1 on a defaultdict(int)
CountNgram(items, ng) ==
    IF \E i \in 1..Len(items) : items[i][1] = ng
    THEN [i \in 1..Len(items) |->
            IF items[i][1] = ng THEN <<ng, items[i][2] + 1>> ELSE items[i]]
    ELSE Append(items, <<ng, 1>>)

\* for ngram in ngrams: token_counts[ngram] += 1
RECURSIVE CountNgrams(_, _)
CountNgrams(items, ngs) ==
    IF ngs = <<>> THEN items
    ELSE CountNgrams(CountNgram(items, Head(ngs)), Tail(ngs))

\* for text in corpus: ... (the whole counting loop)
RECURSIVE CountCorpus(_, _, _)
CountCorpus(items, docs, nn) ==
    IF docs = <<>> THEN items
    ELSE CountCorpus(CountNgrams(items, ngrams_of(convert_text_to_words(Head(docs)), nn)),
                     Tail(docs), nn)

\* sorted(token_counts.items(), key=lambda x: x[1])[::-1]: an ascending sort,
\* reversed, which puts entries of equal count in reverse insertion order
InsertByCountFirst(sorted, item) ==
    LET k == Cardinality({i \in 1..Len(sorted) : sorted[i][2] > item[2]})
    IN SubSeq(sorted, 1, k) \o <<item>> \o SubSeq(sorted, k + 1, Len(sorted))

RECURSIVE SortFromFirst(_, _)
SortFromFirst(sorted, items) ==
    IF items = <<>> THEN sorted
    ELSE SortFromFirst(InsertByCountFirst(sorted, Head(items)), Tail(items))

sorted_ngrams_reversed(items) == SortFromFirst(<<>>, items)

\* one step of a stable descending sort: item goes after every entry whose
\* count is at least its own
InsertByCount(sorted, item) ==
    LET k == Cardinality({i \in 1..Len(sorted) : sorted[i][2] >= item[2]})
    IN SubSeq(sorted, 1, k) \o <<item>> \o SubSeq(sorted, k + 1, Len(sorted))

RECURSIVE SortFrom(_, _)
SortFrom(sorted, items) ==
    IF items = <<>> THEN sorted
    ELSE SortFrom(InsertByCount(sorted, Head(items)), Tail(items))

\* sorted(token_counts.items(), key=lambda x: x[1], reverse=True)
sorted_ngrams(items) == SortFrom(<<>>, items)

\* if self.vocab_size != -1: sorted_ngrams = sorted_ngrams[:self.vocab_size]
limit_vocab(sorted, vs) ==
    IF vs # Unbounded THEN PySlice(sorted, 0, vs) ELSE sorted

\* enumerate(sorted_ngrams, 1): ids counted from one
assign_ids_from_one(sorted) ==
    [ng \in {sorted[i][1] : i \in 1..Len(sorted)} |->
        CHOOSE i \in 1..Len(sorted) : sorted[i][1] = ng]

\* {ngram: idx for idx, (ngram, _) in enumerate(sorted_ngrams)}
assign_ids(sorted) ==
    [ng \in {sorted[i][1] : i \in 1..Len(sorted)} |->
        (CHOOSE i \in 1..Len(sorted) : sorted[i][1] = ng) - 1]

\* {idx: ngram for ngram, idx in self.token_to_id.items()}
invert_ids(t2i) ==
    [idx \in {t2i[ng] : ng \in DOMAIN t2i} |->
        CHOOSE ng \in DOMAIN t2i : t2i[ng] = idx]

\* self.token_to_id.update(...): the new ids are merged into the old map
train_updating(self, docs) ==
    LET token_counts == CountCorpus(<<>>, docs, self.n)
        kept == limit_vocab(sorted_ngrams(token_counts), self.vocab_size)
        new == assign_ids(kept)
        old == self.token_to_id
        t2i == [ng \in DOMAIN old \cup DOMAIN new |->
                    IF ng \in DOMAIN new THEN new[ng] ELSE old[ng]]
    IN [self EXCEPT !.token_to_id = t2i, !.id_to_token = invert_ids(t2i)]

\* NgramTokenizer.train: the instance after train(docs)
train(self, docs) ==
    LET token_counts == CountCorpus(<<>>, docs, self.n)
        kept == limit_vocab(sorted_ngrams(token_counts), self.vocab_size)
        t2i == assign_ids(kept)
    IN [self EXCEPT !.token_to_id = t2i, !.id_to_token = invert_ids(t2i)]

----------------------------------------------------------------------------
(* NgramTokenizer.tokenize *)

\* [self.token_to_id[ngram] for ngram in ngrams if ngram in self.token_to_id]
RECURSIVE token_ids(_, _)
token_ids(ngs, t2i) ==
    IF ngs = <<>> THEN <<>>
    ELSE IF Head(ngs) \in DOMAIN t2i
         THEN <<t2i[Head(ngs)]>> \o token_ids(Tail(ngs), t2i)
         ELSE token_ids(Tail(ngs), t2i)

\* [ngram for ngram in ngrams]: the membership test left out
known_ngrams_unfiltered(ngs, t2i) == ngs

\* [ngram for ngram in ngrams if ngram in self.token_to_id]
RECURSIVE known_ngrams(_, _)
known_ngrams(ngs, t2i) ==
    IF ngs = <<>> THEN <<>>
    ELSE IF Head(ngs) \in DOMAIN t2i
         THEN <<Head(ngs)>> \o known_ngrams(Tail(ngs), t2i)
         ELSE known_ngrams(Tail(ngs), t2i)

\* token_to_id as a defaultdict read with token_to_id[ngram]: a lookup of
\* an unknown n-gram inserts it with the next id
tokenize_inserting(self, t, as_ids) ==
    LET ngs == ngrams_of(convert_text_to_words(t), self.n)
        old == self.token_to_id
        unknown == {ngs[i] : i \in 1..Len(ngs)} \ DOMAIN old
        t2i == [ng \in DOMAIN old \cup unknown |->
                    IF ng \in DOMAIN old THEN old[ng] ELSE Cardinality(DOMAIN old)]
    IN [self |-> [self EXCEPT !.token_to_id = t2i],
        ret |-> IF as_ids THEN token_ids(ngs, old) ELSE known_ngrams(ngs, old)]

\* the call's effect on the instance and its return value
tokenize(self, t, as_ids) ==
    LET ngs == ngrams_of(convert_text_to_words(t), self.n)
    IN [self |-> self,
        ret |-> IF as_ids THEN token_ids(ngs, self.token_to_id)
                ELSE known_ngrams(ngs, self.token_to_id)]

\* NgramTokenizer.__len__
len_tokenizer(self) == Cardinality(DOMAIN self.token_to_id)

----------------------------------------------------------------------------
(* The instance and the calls made on it *)

Self == [n |-> n, vocab_size |-> vocab_size,
         token_to_id |-> token_to_id, id_to_token |-> id_to_token]

\* NgramTokenizer.__init__ / Tokenizer.__init__: any n and vocab_size are
\* stored as given, both maps start empty
Construct(nn, vs) ==
    /\ n = nn
    /\ vocab_size = vs
    /\ token_to_id = EmptyMap
    /\ id_to_token = EmptyMap
    /\ op = "init"
    /\ corpus = <<>>
    /\ text = <<>>
    /\ return_token_ids = FALSE
    /\ result = <<>>
    /\ windows = <<>>
    /\ trained = FALSE
    /\ discarded = FALSE

Init == \E nn \in NValues, vs \in VocabSizes : Construct(nn, vs)

\* a call tokenizer.train(docs)
TrainOn(docs) ==
    \E s \in {train(Self, docs)} :
    /\ n' = s.n
    /\ vocab_size' = s.vocab_size
    /\ token_to_id' = s.token_to_id
    /\ id_to_token' = s.id_to_token
    /\ op' = "train"
    /\ corpus' = docs
    /\ windows' = [d \in 1..Len(docs) |-> ngrams_of(convert_text_to_words(docs[d]), n)]
    /\ trained' = TRUE
    /\ discarded' = (\E ng \in DOMAIN token_to_id : ng \notin DOMAIN s.token_to_id)
    /\ UNCHANGED <<text, return_token_ids, result>>

\* a call tokenizer.tokenize(t, as_ids)
Tokenize ==
    \E t \in TokTexts, as_ids \in BOOLEAN :
        \E r \in {tokenize(Self, t, as_ids)} :
        /\ n' = r.self.n
        /\ vocab_size' = r.self.vocab_size
        /\ token_to_id' = r.self.token_to_id
        /\ id_to_token' = r.self.id_to_token
        /\ op' = "tokenize"
        /\ text' = t
        /\ return_token_ids' = as_ids
        /\ result' = r.ret
        /\ windows' = <<ngrams_of(convert_text_to_words(t), n)>>
        /\ UNCHANGED <<corpus, trained, discarded>>

Train == \E docs \in SmallCorpora : TrainOn(docs)

Next == Train \/ Tokenize

\* one instance, trained and tokenized in any order on small inputs
Spec == Init /\ [][Next]_vars

\* the first train call of an instance, on the larger corpora
TrainCorpus == ~trained /\ \E docs \in TrainCorpora : TrainOn(docs)

\* a later train call of the same instance
Retrain == trained /\ \E docs \in SmallCorpora : TrainOn(docs)

NextTrain == TrainCorpus \/ Retrain

SpecTrain == Init /\ [][NextTrain]_vars

\* the segmenter alone: a text over the full alphabet is chosen, then
\* convert_text_to_words is applied to it
InitSegment ==
    \E t \in SegTexts :
        /\ n = DefaultN
        /\ vocab_size = Unbounded
        /\ token_to_id = EmptyMap
        /\ id_to_token = EmptyMap
        /\ op = "init"
        /\ corpus = <<>>
        /\ text = t
        /\ return_token_ids = FALSE
        /\ result = <<>>
        /\ windows = <<>>
        /\ trained = FALSE
        /\ discarded = FALSE

Segment ==
    /\ op = "init"
    /\ op' = "convert_text_to_words"
    /\ result' = convert_text_to_words(text)
    /\ UNCHANGED <<n, vocab_size, token_to_id, id_to_token, text,
                   corpus, return_token_ids, windows, trained, discarded>>

NextSegment == Segment

SpecSegment == InitSegment /\ [][NextSegment]_vars

----------------------------------------------------------------------------
(* The corpus scan, as the claims speak of it *)

RECURSIVE Flatten(_)
Flatten(ss) == IF ss = <<>> THEN <<>> ELSE Head(ss) \o Flatten(Tail(ss))

\* every window of the last call, documents in order, windows left to right
Scan == Flatten(windows)
Observed == {Scan[i] : i \in 1..Len(Scan)}
Frequency(ng) == Cardinality({i \in 1..Len(Scan) : Scan[i] = ng})
FirstOccurrence(ng) ==
    CHOOSE i \in 1..Len(Scan) : Scan[i] = ng /\ \A j \in 1..(i - 1) : Scan[j] # ng
\* A is ranked before B: more frequent, or as frequent and seen first
RankedBefore(A, B) ==
    \/ Frequency(A) > Frequency(B)
    \/ Frequency(A) = Frequency(B) /\ FirstOccurrence(A) < FirstOccurrence(B)

Ids == {token_to_id[ng] : ng \in DOMAIN token_to_id}
ValidConfig == n >= 1 /\ (vocab_size = Unbounded \/ vocab_size >= 1)

----------------------------------------------------------------------------
(* C1: after any sequence of train calls, id_to_token and token_to_id are  *)
(* inverses of each other and the assigned ids are exactly                 *)
(* 0 .. len(tokenizer) - 1, without gaps or duplicates.                    *)
C1_DenseInverseIds ==
    /\ Ids = 0..(len_tokenizer(Self) - 1)
    /\ DOMAIN id_to_token = Ids
    /\ \A ng \in DOMAIN token_to_id : id_to_token[token_to_id[ng]] = ng
    /\ \A i \in DOMAIN id_to_token :
          id_to_token[i] \in DOMAIN token_to_id /\ token_to_id[id_to_token[i]] = i

\* a validly configured instance after a retrain that dropped an old
\* n-gram and holds at least two n-grams
C1_Witness == op = "train" /\ ValidConfig /\ discarded /\ len_tokenizer(Self) >= 2

(* C3: after train, for distinct retained n-grams A and B, id(A) < id(B)   *)
(* exactly when A is more frequent than B in the corpus, or as frequent    *)
(* and first seen earlier in the scan.                                     *)
C3_IdsFollowRanking ==
    op = "train" =>
        \A A \in DOMAIN token_to_id, B \in DOMAIN token_to_id :
            A # B => ((token_to_id[A] < token_to_id[B]) <=> RankedBefore(A, B))

\* frequency overrides scan order for one pair, scan order decides a tie
\* for another
C3_Witness ==
    /\ op = "train"
    /\ ValidConfig
    /\ \E A \in DOMAIN token_to_id, B \in DOMAIN token_to_id :
          Frequency(A) > Frequency(B) /\ FirstOccurrence(B) < FirstOccurrence(A)
    /\ \E A \in DOMAIN token_to_id, B \in DOMAIN token_to_id :
          A # B /\ Frequency(A) = Frequency(B)

(* C4: len(tokenizer) <= vocab_size whenever vocab_size is bounded (not    *)
(* -1); with vocab_size = -1 the vocabulary holds every distinct n-gram of *)
(* the last training corpus.                                               *)
C4_Bounded ==
    /\ vocab_size # Unbounded => len_tokenizer(Self) <= vocab_size
    /\ (vocab_size = Unbounded /\ op = "train") => Observed \subseteq DOMAIN token_to_id

\* the same statement for the instances the specification allows to exist
C4_BoundedValidConfig == ValidConfig => C4_Bounded

(* C5: after train with bounded vocab_size m on a corpus with d distinct   *)
(* n-grams the vocabulary holds exactly min(m, d) n-grams, the first       *)
(* min(m, d) of the ranked list; the others have no id, and none of them   *)
(* is strictly more frequent than a retained one.                          *)
C5_Truncation ==
    (op = "train" /\ vocab_size # Unbounded) =>
        /\ len_tokenizer(Self) = Min(vocab_size, Cardinality(Observed))
        /\ DOMAIN token_to_id \subseteq Observed
        /\ \A A \in DOMAIN token_to_id, B \in Observed \ DOMAIN token_to_id :
              RankedBefore(A, B) /\ Frequency(B) <= Frequency(A)

C5_TruncationValidConfig == ValidConfig => C5_Truncation

(* C6: train replaces the vocabulary: after any sequence of train calls    *)
(* both maps equal those of a fresh instance with the same n and           *)
(* vocab_size trained on the last corpus only; an n-gram seen only in an   *)
(* earlier corpus has no id; an empty corpus leaves both maps empty.       *)
C6_RetrainReplaces ==
    op = "train" =>
        LET fresh == train([n |-> n, vocab_size |-> vocab_size,
                            token_to_id |-> EmptyMap, id_to_token |-> EmptyMap], corpus)
        IN /\ token_to_id = fresh.token_to_id
           /\ id_to_token = fresh.id_to_token
           /\ DOMAIN token_to_id \subseteq Observed
           /\ corpus = <<>> => (token_to_id = EmptyMap /\ id_to_token = EmptyMap)

\* a train call that took the id of an n-gram of an earlier corpus away
\* and assigned ids to others
C6_Witness == op = "train" /\ ValidConfig /\ discarded /\ token_to_id # EmptyMap

(* C2: tokenize returns the subsequence of the text's windows that are    *)
(* keys of token_to_id, order and duplicates kept; with                    *)
(* return_token_ids=True it returns that subsequence mapped through        *)
(* token_to_id; nothing absent from token_to_id is returned and the two    *)
(* modes give results of equal length.                                     *)
InVocabulary(ng) == ng \in DOMAIN token_to_id
C2_TokenizeFilters ==
    op = "tokenize" =>
        LET kept == SelectSeq(windows[1], InVocabulary)
            other == tokenize(Self, text, ~return_token_ids).ret
        IN /\ ~return_token_ids =>
                /\ result = kept
                /\ \A i \in 1..Len(result) : result[i] \in DOMAIN token_to_id
           /\ return_token_ids =>
                /\ result = [i \in 1..Len(kept) |-> token_to_id[kept[i]]]
                /\ \A i \in 1..Len(result) : result[i] \in Ids
           /\ Len(other) = Len(result)

\* n-grams were asked for, one window was kept and another dropped
C2_Witness ==
    /\ op = "tokenize"
    /\ ValidConfig
    /\ ~return_token_ids
    /\ result # <<>>
    /\ Len(result) < Len(windows[1])

(* C7: tokenize changes none of n, vocab_size, token_to_id, id_to_token;   *)
(* a repeated call on the same text gives the same result; on an instance  *)
(* that was never trained the result is empty.                             *)
C7_TokenizeReadOnly ==
    /\ [][op' = "tokenize" =>
             UNCHANGED <<n, vocab_size, token_to_id, id_to_token>>]_vars
    /\ [][(op = "tokenize" /\ op' = "tokenize" /\ text' = text
             /\ return_token_ids' = return_token_ids) => result' = result]_vars
    /\ []((op = "tokenize" /\ ~trained) => result = <<>>)

\* ids were asked for of a trained instance, and a window was dropped
C7_Witness ==
    /\ op = "tokenize"
    /\ ValidConfig
    /\ trained
    /\ return_token_ids
    /\ Len(result) < Len(windows[1])

(* C8: an instance with n < 1, or with a bounded vocab_size < 1, is        *)
(* rejected at construction, so none is ever trained or used to tokenize.  *)
C8_InvalidConfigRejected == op \in {"train", "tokenize"} => ValidConfig

(* C10: in train and in tokenize a document of k units yields exactly      *)
(* max(0, k - n + 1) windows, the contiguous slices of length n starting   *)
(* at positions 0 .. k - n in order.                                       *)
Documents == IF op = "train" THEN corpus ELSE <<text>>
C10_WindowCount ==
    op \in {"train", "tokenize"} =>
        /\ Len(windows) = Len(Documents)
        /\ \A d \in 1..Len(windows) :
              LET ws == convert_text_to_words(Documents[d])
                  k == Len(ws)
              IN /\ Len(windows[d]) = Max(0, k - n + 1)
                 /\ \A j \in 1..Len(windows[d]) :
                       /\ windows[d][j] = SubSeq(ws, j, j + n - 1)
                       /\ Len(windows[d][j]) = n

C10_WindowCountValidConfig == ValidConfig => C10_WindowCount

(* C9: convert_text_to_words turns each maximal run of word characters     *)
(* into one unit and every other non-whitespace character into a unit of   *)
(* its own, left to right; whitespace gives no unit; the units             *)
(* concatenated are the text without its whitespace; the empty text gives  *)
(* no unit.                                                                *)
IsUnitSpan(t, s, e) ==
    \/ s = e /\ ~IsWordChar(t[s]) /\ ~IsSpaceChar(t[s])
    \/ /\ s <= e
       /\ \A i \in s..e : IsWordChar(t[i])
       /\ s = 1 \/ ~IsWordChar(t[s - 1])
       /\ e = Len(t) \/ ~IsWordChar(t[e + 1])
UnitSpans(t) == {sp \in (1..Len(t)) \X (1..Len(t)) : IsUnitSpan(t, sp[1], sp[2])}
NotSpace(c) == ~IsSpaceChar(c)
C9_Segmentation ==
    op = "convert_text_to_words" =>
        LET spans == UnitSpans(text) IN
        /\ Len(result) = Cardinality(spans)
        /\ \A sp \in spans :
              result[1 + Cardinality({q \in spans : q[1] < sp[1]})]
                  = SubSeq(text, sp[1], sp[2])
        /\ Flatten(result) = SelectSeq(text, NotSpace)
        /\ \A i \in 1..Len(result) : \A j \in 1..Len(result[i]) :
              ~IsSpaceChar(result[i][j])
        /\ text = <<>> => result = <<>>

\* a text with a word of several characters, a punctuation mark and
\* whitespace between two words
C9_Witness ==
    /\ op = "convert_text_to_words"
    /\ \E i \in 1..Len(result) : Len(result[i]) >= 2
    /\ \E i \in 1..Len(result) : result[i] = <<",">>
    /\ \E i \in 2..(Len(text) - 1) :
          IsSpaceChar(text[i]) /\ IsWordChar(text[i - 1]) /\ IsWordChar(text[i + 1])

====
